---- MODULE Spec2Model ----
(***************************************************************************)
(* Model of the paymongo-backend amount pipeline: utils/helpers.js         *)
(* (calculateTaxedAmount), controllers/paymentController.js                *)
(* (createPaymentIntent) and services/paymongoService.js                   *)
(* (createPaymentIntent, refundPayment).                                   *)
(*                                                                         *)
(* JavaScript numbers are IEEE-754 binary64 values.  They are modelled     *)
(* exactly: a finite number is sign * m * 2^e with m a 53-bit integer kept *)
(* as a little-endian sequence of 15-bit limbs, and every arithmetic       *)
(* operation rounds to nearest, ties to even, as the language does.  The   *)
(* exponent range is not modelled (no overflow to Infinity, no            *)
(* subnormals): every value of the model lies between 2^-60 and 2^60.      *)
(* Negative zero is identified with zero.                                  *)
(***************************************************************************)
EXTENDS Integers, Sequences, FiniteSets, TLC

(***************************************************************************)
(* Natural numbers of arbitrary size                                       *)
(***************************************************************************)
LimbBits == 15
Base == 2 ^ LimbBits
MantBits == 53

\* The element of a one-element set.  {e : x \in {a}} evaluates a once
\* and names its value x in e.
The(S) == CHOOSE r \in S : TRUE

Limb(a, i) == IF i <= Len(a) THEN a[i] ELSE 0

\* a without its leading zero limbs
TrimmedTo(a, nonzero) ==
    IF nonzero = {} THEN <<>>
    ELSE SubSeq(a, 1, CHOOSE i \in nonzero : \A j \in nonzero : j <= i)

BigTrim(a0) ==
    The({The({TrimmedTo(a, nonzero) : nonzero \in {{i \in 1..Len(a) : a[i] # 0}}}) :
         a \in {a0}})

BigFromInt(n0) ==
    The({BigTrim(<<n % Base, (n \div Base) % Base, n \div (Base * Base)>>) : n \in {n0}})

BigToInt(a0) ==
    The({Limb(a, 1) + Base * Limb(a, 2) + Base * Base * Limb(a, 3) : a \in {a0}})

RECURSIVE BigAddFrom(_, _, _, _)
BigAddFrom(a, b, i, carry) ==
    IF i > Len(a) /\ i > Len(b)
    THEN (IF carry = 0 THEN <<>> ELSE <<carry>>)
    ELSE The({<<s % Base>> \o BigAddFrom(a, b, i + 1, s \div Base) :
              s \in {Limb(a, i) + Limb(b, i) + carry}})

BigAdd(a0, b0) == The({BigAddFrom(a, b, 1, 0) : a \in {a0}, b \in {b0}})

RECURSIVE BigSubFrom(_, _, _, _)
BigSubFrom(a, b, i, borrow) ==
    IF i > Len(a) THEN <<>>
    ELSE The({IF s < 0
              THEN <<s + Base>> \o BigSubFrom(a, b, i + 1, 1)
              ELSE <<s>> \o BigSubFrom(a, b, i + 1, 0) :
              s \in {Limb(a, i) - Limb(b, i) - borrow}})

\* a - b, for a >= b
BigSub(a0, b0) == The({BigTrim(BigSubFrom(a, b, 1, 0)) : a \in {a0}, b \in {b0}})

RECURSIVE BigCmpFrom(_, _, _)
BigCmpFrom(a, b, i) ==
    IF i = 0 THEN 0
    ELSE IF a[i] < b[i] THEN -1
    ELSE IF a[i] > b[i] THEN 1
    ELSE BigCmpFrom(a, b, i - 1)

\* -1, 0 or 1 as a < b, a = b, a > b (both without leading zero limbs)
BigCmp(a0, b0) ==
    The({IF Len(a) < Len(b) THEN -1
         ELSE IF Len(a) > Len(b) THEN 1
         ELSE BigCmpFrom(a, b, Len(a)) : a \in {a0}, b \in {b0}})

RECURSIVE BigMulSmallFrom(_, _, _, _)
BigMulSmallFrom(a, k, i, carry) ==
    IF i > Len(a)
    THEN (IF carry = 0 THEN <<>> ELSE <<carry>>)
    ELSE The({<<p % Base>> \o BigMulSmallFrom(a, k, i + 1, p \div Base) :
              p \in {a[i] * k + carry}})

\* a * k, for 0 <= k < Base
BigMulSmall(a0, k0) ==
    The({IF k = 0 THEN <<>> ELSE BigMulSmallFrom(a, k, 1, 0) : a \in {a0}, k \in {k0}})

RECURSIVE BigDivSmallFrom(_, _, _, _)
BigDivSmallFrom(a, k, i, rem) ==
    IF i = 0 THEN [q |-> <<>>, r |-> rem]
    ELSE The({The({[q |-> rest.q \o <<cur \div k>>, r |-> rest.r] :
                   rest \in {BigDivSmallFrom(a, k, i - 1, cur % k)}}) :
              cur \in {rem * Base + a[i]}})

\* quotient and remainder of a by k, for 0 < k < Base
BigDivSmall(a0, k0) ==
    The({[q |-> BigTrim(d.q), r |-> d.r] :
         d \in {The({BigDivSmallFrom(a, k, Len(a), 0) : a \in {a0}, k \in {k0}})}})

Zeros(n) == [i \in 1..n |-> 0]

\* a * 2^n
BigShl(a0, n0) ==
    The({IF a = <<>> THEN a
         ELSE Zeros(n \div LimbBits) \o BigMulSmall(a, 2 ^ (n % LimbBits)) :
         a \in {a0}, n \in {n0}})

\* floor(a / 2^n)
BigShr(a0, n0) ==
    The({IF n \div LimbBits >= Len(a) THEN <<>>
         ELSE BigDivSmall(SubSeq(a, n \div LimbBits + 1, Len(a)), 2 ^ (n % LimbBits)).q :
         a \in {a0}, n \in {n0}})

\* bit n (from 0) of a
BigBit(a0, n0) ==
    The({(Limb(a, n \div LimbBits + 1) \div 2 ^ (n % LimbBits)) % 2 : a \in {a0}, n \in {n0}})

\* whether the n low bits of a are all 0
BigLowZero(a0, n0) ==
    \E a \in {a0}, n \in {n0} :
        /\ \A i \in 1..(n \div LimbBits) : Limb(a, i) = 0
        /\ Limb(a, n \div LimbBits + 1) % 2 ^ (n % LimbBits) = 0

RECURSIVE IntBitLen(_)
IntBitLen(n) == IF n = 0 THEN 0 ELSE 1 + IntBitLen(n \div 2)

\* number of bits of a (0 for zero)
BigBitLen(a0) ==
    The({IF a = <<>> THEN 0 ELSE (Len(a) - 1) * LimbBits + IntBitLen(a[Len(a)]) : a \in {a0}})

RECURSIVE BigMulFrom(_, _, _)
BigMulFrom(a, b, i) ==
    IF i > Len(b) THEN <<>>
    ELSE BigAdd(BigMulSmall(a, b[i]), <<0>> \o BigMulFrom(a, b, i + 1))

BigMul(a0, b0) == The({BigTrim(BigMulFrom(a, b, 1)) : a \in {a0}, b \in {b0}})

(***************************************************************************)
(* JavaScript Number values (IEEE-754 binary64)                            *)
(***************************************************************************)
NaN == [k |-> "nan", s |-> 0, m |-> <<>>, e |-> 0]
Infinity(sign) == [k |-> "inf", s |-> sign, m |-> <<>>, e |-> 0]
Zero == [k |-> "fin", s |-> 0, m |-> <<>>, e |-> 0]

IsNaN(x) == x.k = "nan"
IsFinite(x) == x.k = "fin"
IsZero(x) == x.k = "fin" /\ x.m = <<>>

\* The binary64 value nearest to (-1)^sign * (M + f) * 2^E, where 0 <= f < 1
\* and f > 0 exactly when sticky; ties go to the even mantissa.  When sticky
\* holds, M has more than MantBits + 1 bits.
RoundUp(M, d, q, sticky) ==
    BigBit(M, d - 1) = 1 /\ (sticky \/ ~BigLowZero(M, d - 1) \/ BigBit(q, 0) = 1)

Rounded(sign, M, E, sticky, d) ==
    The({IF BigBitLen(q1) > MantBits
         THEN [k |-> "fin", s |-> sign, m |-> BigShr(q1, 1), e |-> E + d + 1]
         ELSE [k |-> "fin", s |-> sign, m |-> q1, e |-> E + d] :
         q1 \in {The({IF RoundUp(M, d, q, sticky) THEN BigAdd(q, <<1>>) ELSE q :
                      q \in {BigShr(M, d)}})}})

RoundBinary64(sign0, M0, E0, sticky0) ==
    The({IF len = 0 THEN Zero
         ELSE IF len <= MantBits
         THEN [k |-> "fin", s |-> sign, m |-> BigShl(M, MantBits - len),
               e |-> E - (MantBits - len)]
         ELSE Rounded(sign, M, E, sticky, len - MantBits) :
         sign \in {sign0}, M \in {M0}, E \in {E0}, sticky \in {sticky0},
         len \in {BigBitLen(M0)}})

\* The Number of an integer n, |n| < 2^31
NumFromInt(n0) ==
    The({
        IF n < 0 THEN RoundBinary64(1, BigFromInt(-n), 0, FALSE)
        ELSE RoundBinary64(0, BigFromInt(n), 0, FALSE) :
        n \in {n0}})

\* The integer part of |x| = m * 2^e and whether |x| has a fractional part
IntegerPartOf(m, e) ==
    IF e >= 0 THEN [q |-> BigShl(m, e), frac |-> FALSE, half |-> FALSE, over |-> FALSE]
    ELSE [q    |-> BigShr(m, -e),
          frac |-> ~BigLowZero(m, -e),
          \* the fractional part is at least one half / more than one half
          half |-> BigBit(m, -e - 1) = 1,
          over |-> BigBit(m, -e - 1) = 1 /\ ~BigLowZero(m, -e - 1)]

IntegerPart(x0) == The({IntegerPartOf(x.m, x.e) : x \in {x0}})

\* The integer a finite integer-valued Number stands for, |x| < 2^31
NumToInt(x0) ==
    The({
        LET n == BigToInt(IntegerPart(x).q)
        IN  IF x.s = 1 THEN -n ELSE n :
        x \in {x0}})

IsInteger(x0) ==
    \E x \in {x0} :
        IsFinite(x) /\ ~IntegerPart(x).frac

NumNeg(x0) ==
    The({
        IF IsNaN(x) \/ IsZero(x) THEN x ELSE [x EXCEPT !.s = 1 - x.s] :
        x \in {x0}})

\* x > 0
NumPositive(x0) ==
    \E x \in {x0} :
        (x.k = "inf" /\ x.s = 0) \/ (x.k = "fin" /\ x.m # <<>> /\ x.s = 0)

\* x * y
NumMul(x0, y0) ==
    The({
        IF IsNaN(x) \/ IsNaN(y) THEN NaN
        ELSE IF x.k = "inf" \/ y.k = "inf"
        THEN (IF IsZero(x) \/ IsZero(y) THEN NaN ELSE Infinity((x.s + y.s) % 2))
        ELSE RoundBinary64((x.s + y.s) % 2, BigMul(x.m, y.m), x.e + y.e, FALSE) :
        x \in {x0}, y \in {y0}})

\* x + y for finite x, y with x.e >= y.e, neither zero
AddAligned(x0, y0) ==
    The({
        LET d  == x.e - y.e
            xm == BigShl(x.m, d)
        IN  IF d > 2 * MantBits THEN x
            ELSE IF x.s = y.s THEN RoundBinary64(x.s, BigAdd(xm, y.m), y.e, FALSE)
            ELSE IF BigCmp(xm, y.m) >= 0
            THEN RoundBinary64(x.s, BigSub(xm, y.m), y.e, FALSE)
            ELSE RoundBinary64(y.s, BigSub(y.m, xm), y.e, FALSE) :
        x \in {x0}, y \in {y0}})

\* x + y
NumAdd(x0, y0) ==
    The({
        IF IsNaN(x) \/ IsNaN(y) THEN NaN
        ELSE IF x.k = "inf"
        THEN (IF y.k = "inf" /\ y.s # x.s THEN NaN ELSE x)
        ELSE IF y.k = "inf" THEN y
        ELSE IF IsZero(x) THEN y
        ELSE IF IsZero(y) THEN x
        ELSE IF x.e >= y.e THEN AddAligned(x, y)
        ELSE AddAligned(y, x) :
        x \in {x0}, y \in {y0}})

\* x - y
NumSub(x, y) == NumAdd(x, NumNeg(y))

\* One step of the long division of mantissas: the next quotient bit is 1
\* when the running remainder r reaches the divisor b
DivideStep(r0, b0, q0) ==
    The({
        IF BigCmp(r, b) >= 0
        THEN [r |-> BigShl(BigSub(r, b), 1), q |-> BigAdd(BigShl(q, 1), <<1>>)]
        ELSE [r |-> BigShl(r, 1), q |-> BigShl(q, 1)] :
        r \in {r0}, b \in {b0}, q \in {q0}})

\* Long division of mantissas: after n steps q = floor(a * 2^(n-1) / b)
\* and r = 2 * (the remainder), for a < 2 * b
RECURSIVE LongDivide(_, _, _)
LongDivide(st, b, n) ==
    IF n = 0 THEN st
    ELSE CHOOSE out \in {LongDivide(next, b, n - 1) : next \in {DivideStep(st.r, b, st.q)}} :
             TRUE

\* x / y
NumDiv(x0, y0) ==
    The({
        IF IsNaN(x) \/ IsNaN(y) THEN NaN
        ELSE IF x.k = "inf"
        THEN (IF y.k = "inf" THEN NaN ELSE Infinity((x.s + y.s) % 2))
        ELSE IF y.k = "inf" THEN Zero
        ELSE IF IsZero(y)
        THEN (IF IsZero(x) THEN NaN ELSE Infinity((x.s + y.s) % 2))
        ELSE IF IsZero(x) THEN Zero
        ELSE LET d == LongDivide([r |-> x.m, q |-> <<>>], y.m, MantBits + 3)
             IN  RoundBinary64((x.s + y.s) % 2, d.q, x.e - y.e - (MantBits + 2), d.r # <<>>) :
        x \in {x0}, y \in {y0}})

\* The Number nearest to n / 10^digits, for 0 <= n < 2^31 and 10^digits < Base
NumFromDecimal(sign0, n0, digits0) ==
    The({
        LET shift == 4 * LimbBits + IntBitLen(10 ^ digits)
            d     == BigDivSmall(BigShl(BigFromInt(n), shift), 10 ^ digits)
        IN  RoundBinary64(sign, d.q, -shift, d.r # 0) :
        sign \in {sign0}, n \in {n0}, digits \in {digits0}})

\* Math.floor(x)
MathFloor(x0) ==
    The({
        IF ~IsFinite(x) THEN x
        ELSE LET p == IntegerPart(x)
             IN  IF x.s = 1 /\ p.frac
                 THEN RoundBinary64(1, BigAdd(p.q, <<1>>), 0, FALSE)
                 ELSE RoundBinary64(x.s, p.q, 0, FALSE) :
        x \in {x0}})

\* Math.ceil(x)
MathCeil(x0) ==
    The({
        IF ~IsFinite(x) THEN x
        ELSE LET p == IntegerPart(x)
             IN  IF x.s = 0 /\ p.frac
                 THEN RoundBinary64(0, BigAdd(p.q, <<1>>), 0, FALSE)
                 ELSE RoundBinary64(x.s, p.q, 0, FALSE) :
        x \in {x0}})

\* Math.round(x): the nearest integer, a tie going up
MathRound(x0) ==
    The({
        IF ~IsFinite(x) THEN x
        ELSE LET p == IntegerPart(x)
             IN  IF (x.s = 0 /\ p.half) \/ (x.s = 1 /\ p.over)
                 THEN RoundBinary64(x.s, BigAdd(p.q, <<1>>), 0, FALSE)
                 ELSE RoundBinary64(x.s, p.q, 0, FALSE) :
        x \in {x0}})

(***************************************************************************)
(* Text: a string is the sequence of its characters                        *)
(***************************************************************************)
Digits == <<"0", "1", "2", "3", "4", "5", "6", "7", "8", "9">>

IsDigit(c) == \E d \in 1..10 : Digits[d] = c
DigitValue(c) == (CHOOSE d \in 1..10 : Digits[d] = c) - 1

RECURSIVE IntToText(_)
IntToText(n) ==
    IF n < 10 THEN <<Digits[n + 1]>>
    ELSE IntToText(n \div 10) \o <<Digits[(n % 10) + 1]>>

\* the last `digits` decimal digits of n, zero padded
RECURSIVE FractionText(_, _)
FractionText(n, digits) ==
    IF digits = 0 THEN <<>>
    ELSE FractionText(n \div 10, digits - 1) \o <<Digits[(n % 10) + 1]>>

InfinityText == <<"I", "n", "f", "i", "n", "i", "t", "y">>
NaNText == <<"N", "a", "N">>

\* Number.prototype.toFixed(digits), for |x| * 10^digits < 2^31: the decimal
\* text of the integer n nearest to the exact value of |x| * 10^digits, the
\* larger n on a tie, with the point `digits` places from the right
toFixed(x0, digits0) ==
    The({
        IF IsNaN(x) THEN NaNText
        ELSE IF x.k = "inf" THEN (IF x.s = 1 THEN <<"-">> ELSE <<>>) \o InfinityText
        ELSE LET p == IntegerPart([m |-> BigMulSmall(x.m, 10 ^ digits), e |-> x.e])
                 n == BigToInt(p.q) + (IF p.half THEN 1 ELSE 0)
             IN  (IF x.s = 1 THEN <<"-">> ELSE <<>>)
                 \o IntToText(n \div 10 ^ digits)
                 \o (IF digits = 0 THEN <<>> ELSE <<".">> \o FractionText(n, digits)) :
        x \in {x0}, digits \in {digits0}})

RECURSIVE TrimLeft(_)
TrimLeft(t) == IF t # <<>> /\ Head(t) = " " THEN TrimLeft(Tail(t)) ELSE t

RECURSIVE TrimRight(_)
TrimRight(t) ==
    IF t # <<>> /\ t[Len(t)] = " " THEN TrimRight(SubSeq(t, 1, Len(t) - 1)) ELSE t

\* Scan of an unsigned decimal literal: digits, at most one point, at least
\* one digit.  ok is FALSE on any other character.
RECURSIVE ScanDecimal(_, _, _, _, _, _)
ScanDecimal(t, i, acc, fracDigits, seenDot, seenDigit) ==
    IF i > Len(t) THEN [ok |-> seenDigit, n |-> acc, digits |-> fracDigits]
    ELSE IF IsDigit(t[i])
    THEN ScanDecimal(t, i + 1, acc * 10 + DigitValue(t[i]),
                     IF seenDot THEN fracDigits + 1 ELSE fracDigits, seenDot, TRUE)
    ELSE IF t[i] = "." /\ ~seenDot
    THEN ScanDecimal(t, i + 1, acc, fracDigits, TRUE, seenDigit)
    ELSE [ok |-> FALSE, n |-> 0, digits |-> 0]

\* StringToNumber on an unsigned, trimmed text (no exponent part, at most 9
\* digits, at most 4 of them after the point)
UnsignedToNumber(t0, sign0) ==
    The({
        IF t = InfinityText THEN Infinity(sign)
        ELSE LET d == ScanDecimal(t, 1, 0, 0, FALSE, FALSE)
             IN  IF d.ok THEN NumFromDecimal(sign, d.n, d.digits) ELSE NaN :
        t \in {t0}, sign \in {sign0}})

\* Number(text): white space is trimmed, the empty text is 0, anything that
\* is not a numeric literal is NaN
StringToNumber(text0) ==
    The({
        LET t == TrimRight(TrimLeft(text))
        IN  IF t = <<>> THEN Zero
            ELSE IF Head(t) = "-" THEN UnsignedToNumber(Tail(t), 1)
            ELSE IF Head(t) = "+" THEN UnsignedToNumber(Tail(t), 0)
            ELSE UnsignedToNumber(t, 0) :
        text \in {text0}})

(***************************************************************************)
(* JavaScript values: undefined, a number or a string                      *)
(***************************************************************************)
Undefined == [t |-> "undefined", n |-> NaN, s |-> <<>>]
JSNumber(x) == [t |-> "number", n |-> x, s |-> <<>>]
JSString(text) == [t |-> "string", n |-> NaN, s |-> text]

\* Number(v)
ToNumber(v0) ==
    The({
        IF v.t = "number" THEN v.n
        ELSE IF v.t = "string" THEN StringToNumber(v.s)
        ELSE NaN :
        v \in {v0}})

\* the truth value of v in a condition
Truthy(v0) ==
    \E v \in {v0} :
        IF v.t = "number" THEN ~IsNaN(v.n) /\ ~IsZero(v.n)
        ELSE IF v.t = "string" THEN v.s # <<>>
        ELSE FALSE

\* v !== w
StrictNotEqual(v0, w0) ==
    \E v \in {v0}, w \in {w0} :
        IF v.t # w.t THEN TRUE
        ELSE IF v.t = "number" THEN IsNaN(v.n) \/ IsNaN(w.n) \/ v.n # w.n
        ELSE IF v.t = "string" THEN v.s # w.s
        ELSE FALSE

\* 1 + v: a string operand makes it a concatenation
OnePlus(v0) ==
    The({
        IF v.t = "string" THEN JSString(<<"1">> \o v.s)
        ELSE JSNumber(NumAdd(NumFromInt(1), ToNumber(v))) :
        v \in {v0}})

\* Number(x.toFixed(2))
FixedNumber(x) == StringToNumber(toFixed(x, 2))

(***************************************************************************)
(* utils/helpers.js                                                        *)
(***************************************************************************)
Hundred == NumFromInt(100)

\* the literal 0.10
DefaultTaxRate == NumFromDecimal(0, 10, 2)

\* variant: the rate used as given, without the Number.isFinite test
SafeRateNoCheck(taxRate) ==
    ToNumber(IF taxRate.t = "undefined" THEN JSNumber(DefaultTaxRate) ELSE taxRate)

\* taxRate = 0.10 when the argument is undefined; rate = Number(taxRate);
\* safeRate = Number.isFinite(rate) ? rate : 0
SafeRate(taxRate) ==
    LET rate == ToNumber(IF taxRate.t = "undefined" THEN JSNumber(DefaultTaxRate)
                         ELSE taxRate)
    IN  IF IsFinite(rate) THEN rate ELSE Zero

\* the decimal amounts of calculateTaxedAmount, each through toFixed(2)
TaxedAmounts(amount, taxRate) ==
    LET safeRate    == SafeRate(taxRate)
        baseAmount  == FixedNumber(ToNumber(amount))
        taxAmount   == FixedNumber(NumMul(baseAmount, safeRate))
        totalAmount == FixedNumber(NumAdd(baseAmount, taxAmount))
    IN  [baseAmount |-> baseAmount, taxAmount |-> taxAmount,
         totalAmount |-> totalAmount, taxRate |-> safeRate]

\* variant: totalCentavos derived from totalAmount
CentavosFromTotal(a) ==
    [baseAmount    |-> a.baseAmount,
     taxAmount     |-> a.taxAmount,
     totalAmount   |-> a.totalAmount,
     baseCentavos  |-> MathFloor(NumMul(a.baseAmount, Hundred)),
     taxCentavos   |-> MathFloor(NumMul(a.taxAmount, Hundred)),
     totalCentavos |-> MathFloor(NumMul(a.totalAmount, Hundred)),
     taxRate       |-> a.taxRate]

\* variant: the centavos rounded up
CentavosCeil(a) ==
    LET baseCentavos == MathCeil(NumMul(a.baseAmount, Hundred))
        taxCentavos  == MathCeil(NumMul(a.taxAmount, Hundred))
    IN  [baseAmount    |-> a.baseAmount,
         taxAmount     |-> a.taxAmount,
         totalAmount   |-> a.totalAmount,
         baseCentavos  |-> baseCentavos,
         taxCentavos   |-> taxCentavos,
         totalCentavos |-> NumAdd(baseCentavos, taxCentavos),
         taxRate       |-> a.taxRate]

\* the centavo amounts of calculateTaxedAmount and the object it returns
WithCentavos(a) ==
    LET baseCentavos == MathFloor(NumMul(a.baseAmount, Hundred))
        taxCentavos  == MathFloor(NumMul(a.taxAmount, Hundred))
    IN  [baseAmount    |-> a.baseAmount,
         taxAmount     |-> a.taxAmount,
         totalAmount   |-> a.totalAmount,
         baseCentavos  |-> baseCentavos,
         taxCentavos   |-> taxCentavos,
         totalCentavos |-> NumAdd(baseCentavos, taxCentavos),
         taxRate       |-> a.taxRate]

calculateTaxedAmount(amount, taxRate) == WithCentavos(TaxedAmounts(amount, taxRate))

(***************************************************************************)
(* services/paymongoService.js                                             *)
(***************************************************************************)
\* createPaymentIntent: the amount of the POST /payment_intents body
PaymentIntentAmount(amount) == MathRound(MathRound(NumMul(amount, Hundred)))

\* variant: the amount of the line item rounded up
LineItemAmountCeil(amount) == MathCeil(NumMul(amount, Hundred))

\* createPaymentIntent and createCheckoutSession: the amount of the line item
\* of the POST /checkout_sessions body
LineItemAmount(amount) == MathRound(NumMul(amount, Hundred))

\* createPaymentIntent: payment_method_allowed of the POST /payment_intents
\* body, `paymentMethodAllowed || ['gcash']` (every array is truthy)
PaymentMethodAllowed(paymentMethodAllowed) == paymentMethodAllowed

\* createPaymentIntent: payment_method_types of the POST /checkout_sessions
\* body; the paymentMethodTypes the controller passes is not a parameter
SessionPaymentMethodTypes(paymentMethodTypes) == <<"gcash">>

\* variant: the refund rounded up
RefundAmountCeil(amount) == MathCeil(NumMul(amount, Hundred))

\* refundPayment: the amount of the POST /refunds body
RefundAmount(amount) == MathRound(NumMul(amount, Hundred))

(***************************************************************************)
(* controllers/paymentController.js                                        *)
(***************************************************************************)
PRODUCTS ==
    [p \in {"START UP VA Course", "GHL Practice Access", "Freelancer Plan",
            "Dedicated Coaching", "Customization Plan", "Client Finder Tool"} |->
        CASE p = "START UP VA Course"  -> 1500
          [] p = "GHL Practice Access" -> 500
          [] p = "Freelancer Plan"     -> 3500
          [] p = "Dedicated Coaching"  -> 999
          [] p = "Customization Plan"  -> 5000
          [] p = "Client Finder Tool"  -> 500]

\* productInfo.amount
ProductAmount(product) == JSNumber(NumFromInt(PRODUCTS[product]))

\* const taxRate = process.env.TAX_RATE ?? 0.10
ConfiguredTaxRate(TAX_RATE) ==
    IF TAX_RATE.t = "undefined" THEN JSNumber(DefaultTaxRate) ELSE TAX_RATE

\* variant: without the test amount > 0
UsesFrontendAmountAnySign(amount, product) ==
    Truthy(amount) /\ StrictNotEqual(amount, ProductAmount(product))

\* amount && amount > 0 && amount !== productInfo.amount
UsesFrontendAmount(amount, product) ==
    /\ Truthy(amount)
    /\ NumPositive(ToNumber(amount))
    /\ StrictNotEqual(amount, ProductAmount(product))

\* variant: the base amount left as the division gives it
FrontendAmountsUnrounded(amount, taxRate) ==
    LET finalAmount == FixedNumber(ToNumber(amount))
        baseAmount  == NumDiv(finalAmount, ToNumber(OnePlus(taxRate)))
        taxAmount   == FixedNumber(NumSub(finalAmount, baseAmount))
    IN  [finalAmount |-> finalAmount, baseAmount |-> baseAmount,
         taxAmount |-> taxAmount, frontend |-> TRUE]

\* the branch that uses the frontend's amount
FrontendAmounts(amount, taxRate) ==
    LET finalAmount == FixedNumber(ToNumber(amount))
        baseAmount  == FixedNumber(NumDiv(finalAmount, ToNumber(OnePlus(taxRate))))
        taxAmount   == FixedNumber(NumSub(finalAmount, baseAmount))
    IN  [finalAmount |-> finalAmount, baseAmount |-> baseAmount,
         taxAmount |-> taxAmount, frontend |-> TRUE]

\* the branch that uses the product mapping
MappedAmounts(product, taxRate) ==
    LET taxed == calculateTaxedAmount(ProductAmount(product), taxRate)
    IN  [finalAmount |-> FixedNumber(taxed.totalAmount),
         baseAmount  |-> FixedNumber(taxed.baseAmount),
         taxAmount   |-> FixedNumber(taxed.taxAmount),
         frontend    |-> FALSE]

\* finalAmount, baseAmount and taxAmount of createPaymentIntent
CheckoutAmounts(amount, product, taxRate) ==
    IF UsesFrontendAmount(amount, product)
    THEN FrontendAmounts(amount, taxRate)
    ELSE MappedAmounts(product, taxRate)

\* String(x) of a finite Number below 10^6 that is a decimal of at most 3
\* places: the shortest decimal text that converts back to x ("?" for a
\* Number that needs more places)
RECURSIVE ShortestFixed(_, _)
ShortestFixed(x, digits) ==
    IF StringToNumber(toFixed(x, digits)) = x THEN toFixed(x, digits)
    ELSE IF digits >= 3 THEN <<"?">>
    ELSE ShortestFixed(x, digits + 1)

StringOfNumber(x0) ==
    The({IF IsFinite(x) THEN ShortestFixed(x, 0) ELSE toFixed(x, 0) : x \in {x0}})

\* the paymentMethod of the body, or 'qrph': "" stands for an absent one
SelectedPaymentMethod(paymentMethod) ==
    IF paymentMethod = "" THEN "qrph" ELSE paymentMethod

methodMap ==
    [gcash |-> "gcash", grabpay |-> "grab_pay", maya |-> "paymaya",
     shopeepay |-> "shopee_pay", bpi |-> "dob", unionbank |-> "dob",
     qrph |-> "qrph", card |-> "card"]

allSupportedPaymongoMethods ==
    <<"qrph", "gcash", "grab_pay", "paymaya", "shopee_pay", "dob">>

\* methodMap[selectedPaymentMethod] || 'qrph'
NormalizedMethod(selected) ==
    IF selected \in DOMAIN methodMap THEN methodMap[selected] ELSE "qrph"

\* paymentMethods before the capabilities filter
SelectedMethods(paymentMethod) ==
    LET selected == SelectedPaymentMethod(paymentMethod)
    IN  IF selected \in {"qrph", "all"}
        THEN allSupportedPaymongoMethods
        ELSE <<NormalizedMethod(selected)>>

\* await paymongoService.getMerchantPaymentMethodCapabilities(): the class
\* PayMongoService has no such method, so the call is a TypeError whatever
\* the merchant is eligible for
getMerchantPaymentMethodCapabilities(merchant) == [threw |-> TRUE, types |-> {}]

\* the try/catch around the capabilities: the filter, the fall back to
\* ['qrph'], and the unfiltered list when the call threw
FilteredMethods(paymentMethods, capabilities) ==
    IF capabilities.threw THEN paymentMethods
    ELSE LET filtered == SelectSeq(paymentMethods, LAMBDA m : m \in capabilities.types)
         IN  IF filtered # <<>> THEN filtered ELSE <<"qrph">>

\* the paymentMethods passed to paymongoService.createPaymentIntent
PaymentMethods(paymentMethod, merchant) ==
    FilteredMethods(SelectedMethods(paymentMethod),
                    getMerchantPaymentMethodCapabilities(merchant))

(***************************************************************************)
(* Inputs.  A decimal amount of a request body is given in thousandths     *)
(* (5500505 is the JSON number 5500.505); JSON.parse makes it the nearest  *)
(* Number.                                                                 *)
(***************************************************************************)
MaxRequestMilli == 30
MaxAmountMilli == 300
MaxRefundMilli == 30

\* the amounts of the test cases of FIX_ROUNDING_ISSUE.md and a neighbour
\* with three fractional digits
DocumentedAmounts == {5500500, 3500990, 999010, 550500, 5500505}

\* two-place amounts whose product with 100 is not an integer Number
\* (0.29 * 100 is 28.999999999999996, 1.15 * 100 is 114.99999999999999)
RoundingAmounts == {290, 1150}

CatalogAmounts == {1000 * PRODUCTS[p] : p \in DOMAIN PRODUCTS}

DecimalNumber(milli) ==
    IF milli < 0 THEN NumFromDecimal(1, -milli, 3) ELSE NumFromDecimal(0, milli, 3)

\* the texts TAX_RATE is set to in the environment, and TAX_RATE not set
TaxRateTexts ==
    {<<"0", ".", "1", "0">>, <<"0", ".", "1", "2">>, <<"0", ".", "2", "9">>,
     <<"a", "b", "c">>, InfinityText}

TaxRateConfigs == {Undefined} \cup {JSString(t) : t \in TaxRateTexts}

\* req.body of POST /create-payment-intent: the product and the amount
\* (hasAmount is FALSE when the body has no amount)
Requests ==
    [product   : DOMAIN PRODUCTS \cup {"Unknown Plan"},
     hasAmount : {TRUE},
     milli     : (0..MaxRequestMilli) \cup DocumentedAmounts \cup RoundingAmounts
                 \cup CatalogAmounts \cup {-1000},
     paymentMethod : {""}]
    \cup [product : DOMAIN PRODUCTS \cup {"Unknown Plan"}, hasAmount : {FALSE}, milli : {0},
          paymentMethod : {""}]

RequestAmount(r) == IF r.hasAmount THEN JSNumber(DecimalNumber(r.milli)) ELSE Undefined

\* the arguments calculateTaxedAmount is applied to
EngineAmounts ==
    (1..MaxAmountMilli) \cup DocumentedAmounts \cup RoundingAmounts \cup CatalogAmounts

EngineTaxRates ==
    {Undefined, JSNumber(Zero), JSNumber(DefaultTaxRate), JSNumber(NumFromDecimal(0, 12, 2)),
     JSNumber(NumFromDecimal(1, 10, 2)), JSNumber(NaN), JSNumber(Infinity(0)),
     JSNumber(Infinity(1))}
    \cup {JSString(t) : t \in TaxRateTexts \cup {<<>>, <<"1", "0", "%">>}}

RefundAmounts == (0..MaxRefundMilli) \cup DocumentedAmounts \cup RoundingAmounts

(***************************************************************************)
(* State                                                                   *)
(***************************************************************************)
VARIABLES
    TAX_RATE,   \* process.env.TAX_RATE
    pc,         \* where the createPaymentIntent handler of the request stands
    req,        \* the request body
    amounts,    \* finalAmount, baseAmount, taxAmount of the handler
    sent,       \* the requests made to the PayMongo API, in order
    res,        \* the status of the response, 0 while there is none
    engine,     \* a call of calculateTaxedAmount: arguments and result
    webhookEnv, \* the GHL and LeadConnector settings of process.env
    hook,       \* a delivery to POST /webhook and what its handler has done
    userRateLimit,  \* the Map of middleware/auth.js: identifier -> timestamps
    now,        \* Date.now()
    limited,    \* the last request through rateLimitByUser and its outcome
    passed,     \* the requests that rateLimitByUser let through, and the windows used
    mobile,     \* a call of validateMobile: argument and result
    flow        \* the merchant, the payment methods, the notification and the body
                \* of the response of the createPaymentIntent handler

checkoutVars == <<TAX_RATE, pc, req, amounts, sent, res, engine, mobile, flow>>
hookVars == <<webhookEnv, hook>>
limitVars == <<userRateLimit, now, limited, passed>>
vars == <<checkoutVars, hookVars, limitVars>>

NoRequest == [product |-> "", hasAmount |-> FALSE, milli |-> 0, paymentMethod |-> ""]
NoAmounts == [finalAmount |-> NaN, baseAmount |-> NaN, taxAmount |-> NaN, frontend |-> FALSE]
NoResult ==
    [baseAmount |-> NaN, taxAmount |-> NaN, totalAmount |-> NaN, baseCentavos |-> NaN,
     taxCentavos |-> NaN, totalCentavos |-> NaN, taxRate |-> NaN]
NoCall == [milli |-> 0, taxRate |-> Undefined, called |-> FALSE, result |-> NoResult]

\* no delivery to the webhook route, nothing configured for it
NoEnv == [ghl |-> FALSE, disabled |-> FALSE, url |-> FALSE]
NoEvent == [type |-> "", hasAttributes |-> FALSE, amount |-> Undefined]
NoDelivery ==
    [pc |-> "idle", event |-> NoEvent, amount |-> Undefined, calls |-> <<>>, posts |-> <<>>,
     timer |-> "none", rejected |-> FALSE, responses |-> <<>>]
HookIdle == webhookEnv = NoEnv /\ hook = NoDelivery

\* no request through rateLimitByUser
NoLimited == [userId |-> "", status |-> 0]
NoPassed == [log |-> {}, windows |-> {}]
LimitIdle == userRateLimit = <<>> /\ now = 0 /\ limited = NoLimited /\ passed = NoPassed

\* the merchant is eligible for every supported type; no payment methods
\* chosen, no notification, no response body
NoMerchant == [types |-> {"qrph", "gcash", "grab_pay", "paymaya", "shopee_pay", "dob"},
               reachable |-> TRUE]
NoBody == [success |-> FALSE, amount |-> NaN]
NoFlow == [merchant |-> NoMerchant, paymentMethods |-> <<>>, notified |-> <<>>,
           body |-> NoBody]
FlowIdle == flow = NoFlow

\* no call of validateMobile
NoMobile == [text |-> <<>>, called |-> FALSE, valid |-> FALSE]
MobileIdle == mobile = NoMobile

Init ==
    /\ TAX_RATE \in TaxRateConfigs
    /\ pc = "idle"
    /\ req = NoRequest
    /\ amounts = NoAmounts
    /\ sent = <<>>
    /\ res = 0
    /\ HookIdle
    /\ MobileIdle
    /\ FlowIdle
    /\ LimitIdle
    /\ engine = NoCall

(***************************************************************************)
(* POST /create-payment-intent                                             *)
(***************************************************************************)
\* exports.createPaymentIntent up to the call of the PayMongo service, for a
\* body whose fullName, email and mobile pass validation: an unknown product
\* is answered 400, otherwise the amounts are computed
createPaymentIntent(r) ==
    /\ pc = "idle"
    /\ req' = r
    /\ IF r.product \notin DOMAIN PRODUCTS
       THEN /\ pc' = "done"
            /\ res' = 400
            /\ amounts' = amounts
            /\ flow' = flow
       ELSE /\ pc' = "intent"
            /\ res' = res
            /\ amounts' = CheckoutAmounts(RequestAmount(r), r.product,
                                          ConfiguredTaxRate(TAX_RATE))
            /\ flow' = [flow EXCEPT !.paymentMethods =
                                        PaymentMethods(r.paymentMethod, flow.merchant)]
    /\ UNCHANGED <<TAX_RATE, sent, engine>>
    /\ UNCHANGED <<hookVars, limitVars, mobile>>

\* PayMongoService.createPaymentIntent, step 1: POST /payment_intents.  A
\* failure is thrown to the handler, which answers 500.
PostPaymentIntent(ok) ==
    /\ pc = "intent"
    /\ sent' = Append(sent, [path |-> "/payment_intents",
                             amount |-> PaymentIntentAmount(amounts.finalAmount),
                             ok |-> ok,
                             methods |-> PaymentMethodAllowed(flow.paymentMethods),
                             totalAmount |-> StringOfNumber(amounts.finalAmount)])
    /\ pc' = IF ok THEN "session" ELSE "done"
    /\ res' = IF ok THEN res ELSE 500
    /\ UNCHANGED <<TAX_RATE, req, amounts, engine>>
    /\ UNCHANGED <<hookVars, limitVars, mobile, flow>>

\* variant: the handler goes on after a failed POST /checkout_sessions
PostCheckoutSessionIgnoringFailure(ok) ==
    /\ pc = "session"
    /\ sent' = Append(sent, [path |-> "/checkout_sessions",
                             amount |-> LineItemAmount(amounts.finalAmount),
                             ok |-> ok,
                             methods |-> SessionPaymentMethodTypes(flow.paymentMethods),
                             totalAmount |-> StringOfNumber(amounts.finalAmount)])
    /\ pc' = "respond"
    /\ UNCHANGED <<TAX_RATE, req, amounts, res, engine>>
    /\ UNCHANGED <<hookVars, limitVars, mobile, flow>>

\* PayMongoService.createPaymentIntent, step 2: POST /checkout_sessions
PostCheckoutSession(ok) ==
    /\ pc = "session"
    /\ sent' = Append(sent, [path |-> "/checkout_sessions",
                             amount |-> LineItemAmount(amounts.finalAmount),
                             ok |-> ok,
                             methods |-> SessionPaymentMethodTypes(flow.paymentMethods),
                             totalAmount |-> StringOfNumber(amounts.finalAmount)])
    /\ pc' = IF ok THEN "respond" ELSE "done"
    /\ res' = IF ok THEN res ELSE 500
    /\ UNCHANGED <<TAX_RATE, req, amounts, engine>>
    /\ UNCHANGED <<hookVars, limitVars, mobile, flow>>

\* the LeadConnector webhook is sent, its failure caught and logged, then
\* res.status(200).json({ success: true, ..., amount: finalAmount, ... })
SendResponse ==
    /\ pc = "respond"
    /\ pc' = "done"
    /\ res' = 200
    /\ flow' = [flow EXCEPT
                   !.notified = Append(@, [status |-> "payment_initiated",
                                           amount |-> amounts.finalAmount]),
                   !.body = [success |-> TRUE, amount |-> amounts.finalAmount]]
    /\ UNCHANGED <<TAX_RATE, req, amounts, sent, engine>>
    /\ UNCHANGED <<hookVars, limitVars, mobile>>

(***************************************************************************)
(* PayMongoService.refundPayment                                           *)
(***************************************************************************)
\* a refund of the total recorded for the checkout just charged
RefundCharge ==
    /\ pc = "done"
    /\ res = 200
    /\ sent' = Append(sent, [path |-> "/refunds",
                             amount |-> RefundAmount(amounts.finalAmount),
                             ok |-> TRUE])
    /\ pc' = "refunded"
    /\ UNCHANGED <<TAX_RATE, req, amounts, res, engine>>
    /\ UNCHANGED <<hookVars, limitVars, mobile, flow>>

\* a refund of any decimal amount
refundPayment(milli) ==
    /\ pc = "idle"
    /\ req' = [product |-> "", hasAmount |-> TRUE, milli |-> milli, paymentMethod |-> ""]
    /\ sent' = Append(sent, [path |-> "/refunds",
                             amount |-> RefundAmount(DecimalNumber(milli)),
                             ok |-> TRUE])
    /\ pc' = "refunded"
    /\ UNCHANGED <<TAX_RATE, amounts, res, engine>>
    /\ UNCHANGED <<hookVars, limitVars, mobile, flow>>

Next ==
    \/ \E r \in Requests : createPaymentIntent(r)
    \/ \E ok \in BOOLEAN : PostPaymentIntent(ok)
    \/ \E ok \in BOOLEAN : PostCheckoutSession(ok)
    \/ SendResponse
    \/ RefundCharge
    \/ \E milli \in RefundAmounts : refundPayment(milli)

Spec == Init /\ [][Next]_vars

(***************************************************************************)
(* calculateTaxedAmount as a function of its arguments                     *)
(***************************************************************************)
InitEngine ==
    /\ TAX_RATE = Undefined
    /\ pc = "idle"
    /\ req = NoRequest
    /\ amounts = NoAmounts
    /\ sent = <<>>
    /\ res = 0
    /\ HookIdle
    /\ MobileIdle
    /\ FlowIdle
    /\ LimitIdle
    /\ engine \in [milli : EngineAmounts, taxRate : EngineTaxRates, called : {FALSE},
                   result : {NoResult}]

Calculate ==
    /\ ~engine.called
    /\ engine' = [engine EXCEPT
                    !.called = TRUE,
                    !.result = calculateTaxedAmount(JSNumber(DecimalNumber(engine.milli)),
                                                    engine.taxRate)]
    /\ UNCHANGED <<TAX_RATE, pc, req, amounts, sent, res>>
    /\ UNCHANGED <<hookVars, limitVars, mobile, flow>>

NextEngine == Calculate

SpecEngine == InitEngine /\ [][NextEngine]_vars

(***************************************************************************)
(* Two calls of calculateTaxedAmount with the same arguments, and a call   *)
(* with other arguments between them                                       *)
(***************************************************************************)
\* the arguments of the call in between: 1.00 and 2.50, at a rate that is
\* undefined or NaN
OtherCalls == [milli : {1000, 2500}, taxRate : {Undefined, JSNumber(NaN)}]

NoOtherCall == [milli |-> 0, taxRate |-> Undefined]

\* the amounts of the calls that are repeated
CallAmounts ==
    (1..MaxRequestMilli) \cup DocumentedAmounts \cup RoundingAmounts \cup CatalogAmounts

InitCalls ==
    /\ TAX_RATE = Undefined
    /\ pc = "idle"
    /\ req = NoRequest
    /\ amounts = NoAmounts
    /\ sent = <<>>
    /\ res = 0
    /\ HookIdle
    /\ MobileIdle
    /\ FlowIdle
    /\ LimitIdle
    /\ engine \in [milli : CallAmounts, taxRate : EngineTaxRates, called : {FALSE},
                   result : {NoResult}, other : {NoOtherCall}, otherResult : {NoResult},
                   repeated : {FALSE}, second : {NoResult}]

FirstCall ==
    /\ ~engine.called
    /\ engine' = [engine EXCEPT
                    !.called = TRUE,
                    !.result = calculateTaxedAmount(JSNumber(DecimalNumber(engine.milli)),
                                                    engine.taxRate)]
    /\ UNCHANGED <<TAX_RATE, pc, req, amounts, sent, res>>
    /\ UNCHANGED <<hookVars, limitVars, mobile, flow>>

InterleavedCall(c) ==
    /\ engine.called
    /\ ~engine.repeated
    /\ engine.other = NoOtherCall
    /\ engine' = [engine EXCEPT
                    !.other = c,
                    !.otherResult = calculateTaxedAmount(JSNumber(DecimalNumber(c.milli)),
                                                         c.taxRate)]
    /\ UNCHANGED <<TAX_RATE, pc, req, amounts, sent, res>>
    /\ UNCHANGED <<hookVars, limitVars, mobile, flow>>

\* variant: the rate is kept in a variable of the module that the call in
\* between has overwritten
SecondCallSharedRate ==
    /\ engine.called
    /\ ~engine.repeated
    /\ engine' = [engine EXCEPT
                    !.repeated = TRUE,
                    !.second = calculateTaxedAmount(
                                   JSNumber(DecimalNumber(engine.milli)),
                                   IF engine.other = NoOtherCall THEN engine.taxRate
                                   ELSE engine.other.taxRate)]
    /\ UNCHANGED <<TAX_RATE, pc, req, amounts, sent, res>>
    /\ UNCHANGED <<hookVars, limitVars, mobile, flow>>

SecondCall ==
    /\ engine.called
    /\ ~engine.repeated
    /\ engine' = [engine EXCEPT
                    !.repeated = TRUE,
                    !.second = calculateTaxedAmount(JSNumber(DecimalNumber(engine.milli)),
                                                    engine.taxRate)]
    /\ UNCHANGED <<TAX_RATE, pc, req, amounts, sent, res>>
    /\ UNCHANGED <<hookVars, limitVars, mobile, flow>>

NextCalls ==
    \/ FirstCall
    \/ \E c \in OtherCalls : InterleavedCall(c)
    \/ SecondCall

SpecCalls == InitCalls /\ [][NextCalls]_vars

(***************************************************************************)
(* Properties of calculateTaxedAmount (specification SpecEngine)           *)
(***************************************************************************)
Result == engine.result

\* c is the integer with c <= x < c + 1
IsFloorOf(c, x) ==
    /\ IsInteger(c)
    /\ ~NumPositive(NumSub(c, x))
    /\ NumPositive(NumSub(NumAdd(c, NumFromInt(1)), x))

\* the number of centavos the decimal text of x with two places denotes,
\* for a finite x >= 0
CentavosOf(x) == ScanDecimal(toFixed(x, 2), 1, 0, 0, FALSE, FALSE).n

\* C1: for every amount and every tax rate the breakdown has
\* totalCentavos = baseCentavos + taxCentavos exactly, where baseCentavos is
\* the floor of baseAmount * 100 and taxCentavos the floor of taxAmount * 100
TotalCentavosIsSumOfFloors ==
    engine.called =>
        /\ IsFloorOf(Result.baseCentavos, NumMul(Result.baseAmount, Hundred))
        /\ IsFloorOf(Result.taxCentavos, NumMul(Result.taxAmount, Hundred))
        /\ IsInteger(Result.totalCentavos)
        /\ NumToInt(Result.totalCentavos)
               = NumToInt(Result.baseCentavos) + NumToInt(Result.taxCentavos)

\* a breakdown with tax whose total in centavos is not the floor of
\* totalAmount * 100
SumDiffersFromFlooredTotal ==
    /\ engine.called
    /\ NumPositive(Result.taxCentavos)
    /\ Result.totalCentavos # MathFloor(NumMul(Result.totalAmount, Hundred))

\* C3: for every positive amount and every tax rate >= 0 (every rate the
\* function applies that is not negative, the rates coerced to 0 included)
\* totalCentavos <= Math.round(totalAmount * 100)
TotalCentavosWithinTotalAmount ==
    (engine.called /\ engine.milli > 0 /\ Result.taxRate.s = 0) =>
        NumToInt(Result.totalCentavos)
            <= NumToInt(MathRound(NumMul(Result.totalAmount, Hundred)))

\* a breakdown at a positive rate whose total in centavos is below what
\* totalAmount denotes
TotalCentavosBelowTotalAmount ==
    /\ engine.called
    /\ engine.milli > 0
    /\ NumPositive(Result.taxRate)
    /\ NumToInt(Result.totalCentavos)
           < NumToInt(MathRound(NumMul(Result.totalAmount, Hundred)))

\* C6: Policy A; for every positive amount and finite tax rate the breakdown
\* is baseAmount = round2(amount), taxAmount = round2(baseAmount * rate),
\* totalAmount = round2(baseAmount + taxAmount), with the centavos the floors
\* of base and tax; with rate 0 the tax is 0 and totalCentavos is the base
\* amount in centavos
PolicyABreakdown ==
    (engine.called /\ engine.milli > 0 /\ IsFinite(ToNumber(engine.taxRate))) =>
        /\ Result.baseAmount = FixedNumber(DecimalNumber(engine.milli))
        /\ Result.taxAmount
               = FixedNumber(NumMul(Result.baseAmount, ToNumber(engine.taxRate)))
        /\ Result.totalAmount = FixedNumber(NumAdd(Result.baseAmount, Result.taxAmount))
        /\ IsFloorOf(Result.baseCentavos, NumMul(Result.baseAmount, Hundred))
        /\ IsFloorOf(Result.taxCentavos, NumMul(Result.taxAmount, Hundred))
        /\ IsZero(ToNumber(engine.taxRate)) =>
               /\ IsZero(Result.taxAmount)
               /\ NumToInt(Result.totalCentavos) = CentavosOf(Result.baseAmount)

\* C9 as stated: for every tax rate that is not a finite number, undefined
\* included, taxAmount = 0, taxCentavos = 0, totalAmount = baseAmount and
\* the taxRate reported is 0
NonFiniteRateGivesNoTax ==
    (engine.called /\ ~IsFinite(ToNumber(engine.taxRate))) =>
        /\ IsZero(Result.taxAmount)
        /\ IsZero(Result.taxCentavos)
        /\ Result.totalAmount = Result.baseAmount
        /\ IsZero(Result.taxRate)

\* C9: for every tax rate given that is not a finite number (NaN, Infinity,
\* -Infinity, text that is no number) taxAmount = 0, taxCentavos = 0,
\* totalAmount = baseAmount and the taxRate reported is 0; for a tax rate
\* that is undefined the default 0.10 is applied and reported
GivenNonFiniteRateGivesNoTax ==
    /\ (engine.called /\ engine.taxRate.t # "undefined"
            /\ ~IsFinite(ToNumber(engine.taxRate))) =>
           /\ IsZero(Result.taxAmount)
           /\ IsZero(Result.taxCentavos)
           /\ Result.totalAmount = Result.baseAmount
           /\ IsZero(Result.taxRate)
    /\ (engine.called /\ engine.taxRate.t = "undefined") =>
           /\ Result.taxRate = DefaultTaxRate
           /\ Result.taxAmount = FixedNumber(NumMul(Result.baseAmount, DefaultTaxRate))
           /\ Result.totalAmount = FixedNumber(NumAdd(Result.baseAmount, Result.taxAmount))

\* a breakdown of a positive amount at the tax rate "abc": no tax
MalformedRateCoerced ==
    /\ engine.called
    /\ engine.taxRate = JSString(<<"a", "b", "c">>)
    /\ NumPositive(Result.baseAmount)
    /\ IsZero(Result.taxRate)
    /\ Result.totalCentavos = Result.baseCentavos

(***************************************************************************)
(* Properties of the checkout and of refunds (specification Spec)          *)
(***************************************************************************)
\* the handler has computed the amounts of a request for a known product
Computed == pc \in {"intent", "session", "respond", "done", "refunded"}
            /\ req.product \in DOMAIN PRODUCTS

\* the decimal amount the i-th request to PayMongo converts to centavos
ConvertedAmount(i) ==
    IF sent[i].path = "/refunds" /\ res # 200
    THEN DecimalNumber(req.milli)
    ELSE amounts.finalAmount

\* C2: for every checkout that uses the caller's amount, the centavos sent
\* to PayMongo never exceed amount * 100
NeverOvercharged ==
    (Computed /\ amounts.frontend) =>
        \A i \in 1..Len(sent) :
            sent[i].path # "/refunds" => NumToInt(sent[i].amount) * 10 <= req.milli

\* C4: every conversion of a decimal amount to centavos for the PayMongo API
\* (payment intent, line item, refund) yields floor(amount * 100)
ConversionsUseFloor ==
    \A i \in 1..Len(sent) :
        sent[i].amount = MathFloor(NumMul(ConvertedAmount(i), Hundred))

\* C5: the centavos refundPayment sends when it refunds the recorded total
\* of a checkout never exceed the centavos createPaymentIntent sent when it
\* charged that total
RefundWithinCharge ==
    (pc = "refunded" /\ res = 200) =>
        NumToInt(sent[Len(sent)].amount) <= NumToInt(sent[1].amount)

\* a refund of the total of a charged checkout, positive, sent as the
\* centavos that were charged
RefundedWhatWasCharged ==
    /\ pc = "refunded"
    /\ res = 200
    /\ sent[Len(sent)].path = "/refunds"
    /\ sent[1].path = "/payment_intents"
    /\ NumPositive(sent[1].amount)
    /\ sent[Len(sent)].amount = sent[1].amount

\* C7: Policy B; whenever the caller's total is used, with TAX_RATE absent
\* or the text of a number, totalAmount = round2(callerTotal), baseAmount =
\* round2(totalAmount / (1 + taxRate)), taxAmount = round2(totalAmount -
\* baseAmount)
PolicyBBreakdown ==
    (Computed /\ amounts.frontend
        /\ IsFinite(ToNumber(ConfiguredTaxRate(TAX_RATE)))) =>
        /\ amounts.finalAmount = FixedNumber(DecimalNumber(req.milli))
        /\ amounts.baseAmount
               = FixedNumber(NumDiv(amounts.finalAmount,
                                    NumAdd(NumFromInt(1),
                                           ToNumber(ConfiguredTaxRate(TAX_RATE)))))
        /\ amounts.taxAmount
               = FixedNumber(NumSub(amounts.finalAmount, amounts.baseAmount))

\* C8: the caller's amount is used only when it is supplied, > 0 and not the
\* catalog price of the product; otherwise the amounts are those of
\* calculateTaxedAmount on the catalog price, the same as for a request
\* without amount, and so is the charge
PolicySelection ==
    Computed =>
        /\ amounts.frontend
               <=> (req.hasAmount /\ req.milli > 0
                        /\ req.milli # 1000 * PRODUCTS[req.product])
        /\ amounts.frontend =>
               amounts.finalAmount = FixedNumber(DecimalNumber(req.milli))
        /\ ~amounts.frontend =>
               /\ amounts = CheckoutAmounts(Undefined, req.product,
                                            ConfiguredTaxRate(TAX_RATE))
               /\ amounts.finalAmount
                      = calculateTaxedAmount(ProductAmount(req.product),
                                             ConfiguredTaxRate(TAX_RATE)).totalAmount
               /\ sent # <<>> =>
                      sent[1].amount = PaymentIntentAmount(amounts.finalAmount)

\* a negative amount was supplied and the catalog price was charged
NegativeAmountIgnored ==
    /\ Computed
    /\ req.hasAmount
    /\ req.milli < 0
    /\ ~amounts.frontend
    /\ sent # <<>>
    /\ NumToInt(sent[1].amount) >= 100 * PRODUCTS[req.product]

\* C10: with a TAX_RATE that is no finite number, under either policy the
\* base, tax and total amounts are finite, the tax is 0 and the amounts sent
\* to PayMongo are finite integers
MalformedTaxRateHarmless ==
    (Computed /\ TAX_RATE.t = "string" /\ ~IsFinite(ToNumber(TAX_RATE))) =>
        /\ IsFinite(amounts.finalAmount)
        /\ IsFinite(amounts.baseAmount)
        /\ IsFinite(amounts.taxAmount)
        /\ IsZero(amounts.taxAmount)
        /\ \A i \in 1..Len(sent) : IsInteger(sent[i].amount)

\* C11: a caller-supplied amount that is <= 0 is rejected with a validation
\* error before any amount is computed, and no request is sent to PayMongo
NonPositiveAmountRejected ==
    (pc # "idle" /\ req.product \in DOMAIN PRODUCTS /\ req.hasAmount /\ req.milli <= 0) =>
        /\ pc = "done"
        /\ res = 400
        /\ amounts = NoAmounts
        /\ sent = <<>>

\* the breakdown calculateTaxedAmount returns for the product of the request
CatalogBreakdown ==
    calculateTaxedAmount(ProductAmount(req.product), ConfiguredTaxRate(TAX_RATE))

\* C12: the value the controller hands to the PayMongo client for a catalog
\* checkout is the integer totalCentavos of the breakdown, and the client
\* places that value unchanged in its requests
ChargeIsTotalCentavos ==
    (Computed /\ ~amounts.frontend) =>
        /\ amounts.finalAmount = CatalogBreakdown.totalCentavos
        /\ \A i \in 1..Len(sent) :
               sent[i].path # "/refunds" => sent[i].amount = amounts.finalAmount

\* C13: for every caller-supplied amount with at most 2 fractional digits
\* that is used as the final total, the integer sent to PayMongo is
\* amount * 100 exactly and the reported baseAmount and taxAmount sum to the
\* amount; 5500.50 at rate 0.10 gives base 5000.45 and tax 500.05
CallerTotalChargedExactly ==
    (Computed /\ amounts.frontend /\ req.milli % 10 = 0) =>
        /\ \A i \in 1..Len(sent) :
               sent[i].path # "/refunds" => NumToInt(sent[i].amount) * 10 = req.milli
        /\ IsFinite(amounts.baseAmount)
        /\ IsFinite(amounts.taxAmount)
        /\ FixedNumber(NumAdd(amounts.baseAmount, amounts.taxAmount)) = amounts.finalAmount
        /\ (req.milli = 5500500 /\ ToNumber(ConfiguredTaxRate(TAX_RATE)) = DefaultTaxRate) =>
               /\ amounts.baseAmount = NumFromDecimal(0, 500045, 2)
               /\ amounts.taxAmount = NumFromDecimal(0, 50005, 2)

\* x is the Number nearest to a decimal with two fractional digits
TwoPlace(x) ==
    /\ IsFinite(x)
    /\ x = NumFromDecimal(x.s, NumToInt(MathRound(NumMul([x EXCEPT !.s = 0], Hundred))), 2)

\* C14: with a valid (finite) tax rate every baseAmount, taxAmount and
\* totalAmount produced for a checkout, by calculateTaxedAmount and by the
\* caller-total branch, is a decimal with exactly two fractional digits
AmountsHaveTwoPlaces ==
    (Computed /\ IsFinite(ToNumber(ConfiguredTaxRate(TAX_RATE)))) =>
        /\ TwoPlace(amounts.finalAmount)
        /\ TwoPlace(amounts.baseAmount)
        /\ TwoPlace(amounts.taxAmount)
        /\ ~amounts.frontend =>
               /\ TwoPlace(CatalogBreakdown.baseAmount)
               /\ TwoPlace(CatalogBreakdown.taxAmount)
               /\ TwoPlace(CatalogBreakdown.totalAmount)

\* a caller total of 5500.50 at the default rate was answered with the base
\* amount 5000.45, where the division gives 5000.4545...
DivisionRoundedToTwoPlaces ==
    /\ pc = "done"
    /\ res = 200
    /\ amounts.frontend
    /\ req.milli = 5500500
    /\ TAX_RATE = Undefined
    /\ amounts.baseAmount = NumFromDecimal(0, 500045, 2)
    /\ amounts.baseAmount # NumDiv(amounts.finalAmount, NumFromDecimal(0, 110, 2))

\* the centavos a finite x denotes, with its sign
SignedCentavos(x) ==
    IF x.s = 1 THEN -CentavosOf([x EXCEPT !.s = 0]) ELSE CentavosOf(x)

\* total = base + tax as decimals with two places
SumsToTotal(total, base, tax) ==
    /\ IsFinite(total) /\ IsFinite(base) /\ IsFinite(tax)
    /\ SignedCentavos(total) = SignedCentavos(base) + SignedCentavos(tax)

\* C15: under both policies the reported amounts satisfy totalAmount =
\* baseAmount + taxAmount exactly, for every caller total and tax rate
TotalIsBasePlusTax ==
    Computed =>
        /\ SumsToTotal(amounts.finalAmount, amounts.baseAmount, amounts.taxAmount)
        /\ ~amounts.frontend =>
               SumsToTotal(CatalogBreakdown.totalAmount, CatalogBreakdown.baseAmount,
                           CatalogBreakdown.taxAmount)

CentavoValues ==
    {Undefined, JSNumber(Infinity(0)), JSString(<<>>), JSString(<<"a", "b", "c">>),
     JSString(<<"1", "5", "0", "0", "0", "0">>)}
    \cup {JSNumber(NumFromInt(c)) : c \in {0, 1, 29, 109890, 150000, 165050, 550051}}

(***************************************************************************)
(* POST /webhook: handleWebhook, handlePaymentSuccess, handlePaymentFailure *)
(* and WebhookService.sendToLeadConnector.  A step is the code between two *)
(* awaits.                                                                 *)
(***************************************************************************)
\* process.env: ghl is GHL_PRIVATE_KEY && GHL_LOCATION_ID, disabled is
\* DISABLE_LEADCONNECTOR_WEBHOOK = 'true', url is LEADCONNECTOR_WEBHOOK set
WebhookEnvs == [ghl : BOOLEAN, disabled : BOOLEAN, url : BOOLEAN]

\* req.body: the event type (other stands for an unknown or missing type),
\* whether event.data?.attributes || event.data is defined, and
\* paymentData.attributes?.amount (present: a number other than 0; zero: 0;
\* missing: undefined or no number)
Events ==
    [type : {"payment.paid", "payment.failed", "payment.pending", "other"},
     hasAttributes : BOOLEAN,
     amount : CentavoValues]

\* variant: the amount left in centavos
PaidAmountInCentavos(centavos) ==
    LET amountCentavos == ToNumber(centavos)
    IN  IF IsFinite(amountCentavos) THEN JSNumber(amountCentavos) ELSE Undefined

\* handlePaymentSuccess: amountCentavos = Number(paymentData.attributes?.amount),
\* amount = Number.isFinite(amountCentavos) ? (amountCentavos / 100) : undefined
PaidAmount(centavos) ==
    LET amountCentavos == ToNumber(centavos)
    IN  IF IsFinite(amountCentavos)
        THEN JSNumber(NumDiv(amountCentavos, Hundred))
        ELSE Undefined

\* what a GHL call answers: it throws, or returns with or without an id
GhlOutcomes == {"throws", "id", "noid"}

InitWebhook ==
    /\ TAX_RATE = Undefined
    /\ pc = "idle"
    /\ req = NoRequest
    /\ amounts = NoAmounts
    /\ sent = <<>>
    /\ res = 0
    /\ engine = NoCall
    /\ webhookEnv \in WebhookEnvs
    /\ hook = NoDelivery
    /\ LimitIdle
    /\ MobileIdle
    /\ FlowIdle

\* handleWebhook up to the first await: the switch on the event type.
\* handlePaymentSuccess and handlePaymentFailure read attributes.data, which
\* throws a TypeError when attributes is undefined.  With the GHL keys
\* set, handlePaymentSuccess computes the amount before its first await.
handleWebhook(event) ==
    /\ hook.pc = "idle"
    /\ hook' = [hook EXCEPT
                  !.event = event,
                  !.amount = IF event.type = "payment.paid" /\ event.hasAttributes
                                /\ webhookEnv.ghl
                             THEN PaidAmount(event.amount)
                             ELSE Undefined,
                  !.pc = CASE event.type = "payment.paid" ->
                                  IF ~event.hasAttributes THEN "caught"
                                  ELSE IF webhookEnv.ghl THEN "upsert"
                                  ELSE "notify"
                           [] event.type = "payment.failed" ->
                                  IF ~event.hasAttributes THEN "caught" ELSE "notify"
                           [] OTHER -> "respond"]
    /\ UNCHANGED <<checkoutVars, webhookEnv, limitVars>>

\* variant: the invoice is created whatever upsertContact returned
upsertContactAnyResult(outcome) ==
    /\ hook.pc = "upsert"
    /\ hook' = [hook EXCEPT
                  !.calls = Append(@, [call |-> "upsertContact", outcome |-> outcome]),
                  !.pc = IF outcome # "throws" THEN "invoice" ELSE "notify"]
    /\ UNCHANGED <<checkoutVars, webhookEnv, limitVars>>

\* handlePaymentSuccess: await ghlService.upsertContact(...): the invoice is
\* created only for a contact id and an amount; a failure is caught and
\* logged
upsertContact(outcome) ==
    /\ hook.pc = "upsert"
    /\ hook' = [hook EXCEPT
                  !.calls = Append(@, [call |-> "upsertContact", outcome |-> outcome]),
                  !.pc = IF outcome = "id" /\ Truthy(hook.amount)
                         THEN "invoice" ELSE "notify"]
    /\ UNCHANGED <<checkoutVars, webhookEnv, limitVars>>

\* handlePaymentSuccess: await ghlService.createInvoice(...)
createInvoice(outcome) ==
    /\ hook.pc = "invoice"
    /\ hook' = [hook EXCEPT
                  !.calls = Append(@, [call |-> "createInvoice", outcome |-> outcome,
                                       amount |-> hook.amount]),
                  !.pc = IF outcome = "id" THEN "record" ELSE "notify"]
    /\ UNCHANGED <<checkoutVars, webhookEnv, limitVars>>

\* handlePaymentSuccess: await ghlService.recordInvoicePayment(...), its
\* failure caught and logged
recordInvoicePayment(ok) ==
    /\ hook.pc = "record"
    /\ hook' = [hook EXCEPT
                  !.calls = Append(@, [call |-> "recordInvoicePayment",
                                       outcome |-> IF ok THEN "id" ELSE "throws",
                                       amount |-> hook.amount]),
                  !.pc = "notify"]
    /\ UNCHANGED <<checkoutVars, webhookEnv, limitVars>>

\* variant: the retry is scheduled whether or not the first POST failed
sendToLeadConnectorAlwaysRetry(ok) ==
    /\ hook.pc = "notify"
    /\ IF webhookEnv.disabled \/ ~webhookEnv.url
       THEN hook' = [hook EXCEPT !.pc = "respond"]
       ELSE hook' = [hook EXCEPT
                       !.posts = Append(@, [retry |-> FALSE, originalError |-> FALSE,
                                            ok |-> ok]),
                       !.timer = "pending",
                       !.rejected = ~ok,
                       !.pc = "respond"]
    /\ UNCHANGED <<checkoutVars, webhookEnv, limitVars>>

\* await webhookService.sendToLeadConnector(...).catch(...): nothing is
\* posted when the webhook is disabled or has no URL; a failed POST
\* schedules the retry and is thrown to the caller, who logs it
sendToLeadConnector(ok) ==
    /\ hook.pc = "notify"
    /\ IF webhookEnv.disabled \/ ~webhookEnv.url
       THEN hook' = [hook EXCEPT !.pc = "respond"]
       ELSE hook' = [hook EXCEPT
                       !.posts = Append(@, [retry |-> FALSE, originalError |-> FALSE,
                                            ok |-> ok]),
                       !.timer = IF ok THEN "none" ELSE "pending",
                       !.rejected = ~ok,
                       !.pc = "respond"]
    /\ UNCHANGED <<checkoutVars, webhookEnv, limitVars>>

\* the callback of setTimeout(..., 5000): one more POST, with retry: true and
\* originalError; its failure is caught and logged
RetryPost(ok) ==
    /\ hook.timer = "pending"
    /\ hook' = [hook EXCEPT
                  !.posts = Append(@, [retry |-> TRUE, originalError |-> TRUE, ok |-> ok]),
                  !.timer = "fired"]
    /\ UNCHANGED <<checkoutVars, webhookEnv, limitVars>>

\* variant: an error thrown by a handler is answered 500
WebhookErrorAnswered500 ==
    /\ hook.pc = "caught"
    /\ hook' = [hook EXCEPT
                  !.responses = Append(@, [status |-> 500, received |-> FALSE,
                                           error |-> TRUE]),
                  !.pc = "done"]
    /\ UNCHANGED <<checkoutVars, webhookEnv, limitVars>>

\* handleWebhook: res.status(200).json({ received: true })
RespondReceived ==
    /\ hook.pc = "respond"
    /\ hook' = [hook EXCEPT
                  !.responses = Append(@, [status |-> 200, received |-> TRUE,
                                           error |-> FALSE]),
                  !.pc = "done"]
    /\ UNCHANGED <<checkoutVars, webhookEnv, limitVars>>

\* handleWebhook, catch: res.status(200).json({ received: true, error })
RespondCaught ==
    /\ hook.pc = "caught"
    /\ hook' = [hook EXCEPT
                  !.responses = Append(@, [status |-> 200, received |-> TRUE,
                                           error |-> TRUE]),
                  !.pc = "done"]
    /\ UNCHANGED <<checkoutVars, webhookEnv, limitVars>>

NextWebhook ==
    \/ \E event \in Events : handleWebhook(event)
    \/ \E outcome \in GhlOutcomes : upsertContact(outcome)
    \/ \E outcome \in GhlOutcomes : createInvoice(outcome)
    \/ \E ok \in BOOLEAN : recordInvoicePayment(ok)
    \/ \E ok \in BOOLEAN : sendToLeadConnector(ok)
    \/ \E ok \in BOOLEAN : RetryPost(ok)
    \/ RespondReceived
    \/ RespondCaught

SpecWebhook == InitWebhook /\ [][NextWebhook]_vars

\* the timer of the retry fires while the process runs
SpecWebhookFair == SpecWebhook /\ WF_vars(\E ok \in BOOLEAN : RetryPost(ok))

(***************************************************************************)
(* Properties of the webhook (specifications SpecWebhook, SpecWebhookFair) *)
(***************************************************************************)
\* a step of the handler of the delivery
HandlerStep ==
    \/ \E outcome \in GhlOutcomes : upsertContact(outcome)
    \/ \E outcome \in GhlOutcomes : createInvoice(outcome)
    \/ \E ok \in BOOLEAN : recordInvoicePayment(ok)
    \/ \E ok \in BOOLEAN : sendToLeadConnector(ok)
    \/ RespondReceived
    \/ RespondCaught

\* C17: handleWebhook answers 200 with received: true, once per delivery,
\* for every body and every outcome of the GHL and LeadConnector calls: no
\* response has another status, no delivery has two responses, a handler
\* that has not answered can always take its next step, and one that has
\* finished has answered
WebhookAlwaysAcknowledged ==
    /\ Len(hook.responses) <= 1
    /\ \A i \in 1..Len(hook.responses) :
           hook.responses[i].status = 200 /\ hook.responses[i].received
    /\ hook.pc = "done" => Len(hook.responses) = 1
    /\ hook.pc \notin {"idle", "done"} => (hook.responses = <<>> /\ ENABLED HandlerStep)

\* a payment.paid delivery whose GHL call threw and whose LeadConnector POST
\* failed was answered 200
AcknowledgedAfterFailures ==
    /\ hook.pc = "done"
    /\ hook.event.type = "payment.paid"
    /\ \E i \in 1..Len(hook.calls) : hook.calls[i].outcome = "throws"
    /\ hook.rejected
    /\ hook.responses = <<[status |-> 200, received |-> TRUE, error |-> FALSE]>>

\* the event carries an amount: a number, or a text that denotes one,
\* finite and not zero
AmountPresent(centavos) ==
    /\ centavos # Undefined
    /\ IsFinite(ToNumber(centavos))
    /\ ~IsZero(ToNumber(centavos))

\* the order of the GHL calls
GhlOrder == <<"upsertContact", "createInvoice", "recordInvoicePayment">>

\* C18: on payment.paid the GHL calls are contact upsert, invoice creation,
\* record-payment in that order, each at most once per delivery;
\* createInvoice only after upsertContact returned a contact id and with the
\* amount present, recordInvoicePayment only after createInvoice returned an
\* invoice id
GhlCallsInOrder ==
    /\ Len(hook.calls) <= 3
    /\ \A i \in 1..Len(hook.calls) : hook.calls[i].call = GhlOrder[i]
    /\ hook.calls # <<>> => (hook.event.type = "payment.paid" /\ webhookEnv.ghl)
    /\ Len(hook.calls) >= 2 =>
           (hook.calls[1].outcome = "id" /\ AmountPresent(hook.event.amount))
    /\ Len(hook.calls) >= 3 => hook.calls[2].outcome = "id"

\* a delivery that made all three GHL calls
AllThreeGhlCalls ==
    /\ hook.pc = "done"
    /\ Len(hook.calls) = 3
    /\ hook.calls[3].call = "recordInvoicePayment"

\* the POSTs of one call of sendToLeadConnector
AtMostOneRetry ==
    /\ Len(hook.posts) <= 2
    /\ (webhookEnv.disabled \/ ~webhookEnv.url) => hook.posts = <<>>
    /\ Len(hook.posts) >= 1 =>
           /\ ~hook.posts[1].retry
           /\ hook.rejected <=> ~hook.posts[1].ok
           /\ hook.posts[1].ok => hook.timer = "none"
    /\ Len(hook.posts) = 2 =>
           /\ ~hook.posts[1].ok
           /\ hook.posts[2].retry
           /\ hook.posts[2].originalError
           /\ hook.timer = "fired"
    /\ hook.timer = "pending" => (Len(hook.posts) = 1 /\ ~hook.posts[1].ok)
    /\ hook.timer = "none" => Len(hook.posts) <= 1

\* C19: sendToLeadConnector makes at most two POSTs per call; the retry is
\* scheduled only after the first POST failed, is made once, carries retry
\* and originalError, is not retried when it fails; the first failure is
\* reported to the caller; no POST is made when the webhook is disabled or
\* has no URL
LeadConnectorRetriedOnce ==
    /\ []AtMostOneRetry
    /\ (hook.timer = "pending") ~> (hook.timer = "fired")

\* the first POST and the retry both failed, and the delivery was answered
BothPostsFailed ==
    /\ hook.pc = "done"
    /\ Len(hook.posts) = 2
    /\ ~hook.posts[2].ok
    /\ hook.rejected
    /\ Len(hook.responses) = 1

(***************************************************************************)
(* middleware/auth.js: rateLimitByUser and the module's table userRateLimit *)
(***************************************************************************)
\* largest maxRequests and windowMs given to rateLimitByUser, last reading of
\* Date.now()
MaxMaxRequests == 2
MaxWindowMs == 2
MaxClock == 4

\* req.body.email (absent: "") and req.ip of a request
LimitRequests == [email : {"", "ana@site.ph"}, ip : {"10.0.0.1", "10.0.0.2"}]

\* userRateLimit.set(key, value)
MapSet(map, key, value) ==
    [k \in (DOMAIN map) \cup {key} |-> IF k = key THEN value ELSE map[k]]

\* no request yet: the Map is empty
InitLimit ==
    /\ TAX_RATE = Undefined
    /\ pc = "idle"
    /\ req = NoRequest
    /\ amounts = NoAmounts
    /\ sent = <<>>
    /\ res = 0
    /\ engine = NoCall
    /\ HookIdle
    /\ MobileIdle
    /\ FlowIdle
    /\ LimitIdle

\* variant: entries whose timestamps are all outside the window are evicted
rateLimitByUserEvicting(maxRequests, windowMs, request, tick) ==
    /\ now + tick <= MaxClock
    /\ LET userId == IF request.email # "" THEN request.email ELSE request.ip
           clock == now + tick
           timestamps == IF userId \in DOMAIN userRateLimit
                         THEN userRateLimit[userId] ELSE <<>>
           windowStart == clock - windowMs
           validTimestamps == SelectSeq(timestamps, LAMBDA t : t > windowStart)
           rejected == Len(validTimestamps) >= maxRequests
           stored == IF rejected THEN validTimestamps ELSE Append(validTimestamps, clock)
           map == MapSet(userRateLimit, userId, stored)
           live == {k \in DOMAIN map :
                       \E i \in 1..Len(map[k]) : map[k][i] > windowStart}
       IN  /\ now' = clock
           /\ userRateLimit' = [k \in live |-> map[k]]
           /\ limited' = [userId |-> userId, status |-> IF rejected THEN 429 ELSE 0]
    /\ UNCHANGED <<checkoutVars, hookVars>>

\* one request through a middleware made by rateLimitByUser(maxRequests,
\* windowMs); tick is the time since the previous reading of Date.now();
\* status 0: next() was called and this middleware sent nothing
rateLimitByUser(maxRequests, windowMs, request, tick) ==
    /\ now + tick <= MaxClock
    /\ LET userId == IF request.email # "" THEN request.email ELSE request.ip
           clock == now + tick
           timestamps == IF userId \in DOMAIN userRateLimit
                         THEN userRateLimit[userId] ELSE <<>>
           windowStart == clock - windowMs
           validTimestamps == SelectSeq(timestamps, LAMBDA t : t > windowStart)
           rejected == Len(validTimestamps) >= maxRequests
           stored == IF rejected THEN validTimestamps ELSE Append(validTimestamps, clock)
       IN  /\ now' = clock
           /\ userRateLimit' = MapSet(userRateLimit, userId, stored)
           /\ limited' = [userId |-> userId, status |-> IF rejected THEN 429 ELSE 0]
    /\ UNCHANGED <<checkoutVars, hookVars>>

\* a request without a parsed body: req.body.email throws before the Map is
\* read, and the error handler of the application answers 500
RequestWithoutBody ==
    /\ limited' = [userId |-> "", status |-> 500]
    /\ UNCHANGED <<checkoutVars, hookVars, userRateLimit, now, passed>>

NextLimit ==
    \/ \E maxRequests \in 1..MaxMaxRequests, windowMs \in 1..MaxWindowMs,
          request \in LimitRequests, tick \in {0, 1} :
           rateLimitByUser(maxRequests, windowMs, request, tick) /\ UNCHANGED passed
    \/ RequestWithoutBody

SpecLimit == InitLimit /\ [][NextLimit]_vars

\* the identifier that the last request was counted under has an entry
\* after the request, and the entries before the request are all kept
EntriesKept ==
    /\ (DOMAIN userRateLimit) \subseteq (DOMAIN userRateLimit')
    /\ limited'.status \in {0, 429} => limited'.userId \in DOMAIN userRateLimit'
    /\ limited'.status = 500 => userRateLimit' = userRateLimit

\* C20: the rate-limit table only grows: no request through rateLimitByUser
\* removes an entry, and the identifier (email or IP) of every request,
\* also of one answered 429, has an entry afterwards
TableOnlyGrows == [][EntriesKept]_vars

\* all three identifiers have an entry, the last request was answered 429,
\* and another identifier's entry holds no timestamp of the last second
RejectedAndStaleEntriesKept ==
    /\ limited.status = 429
    /\ limited.userId \in DOMAIN userRateLimit
    /\ Cardinality(DOMAIN userRateLimit) = 3
    /\ \E k \in (DOMAIN userRateLimit) \ {limited.userId} :
           \A i \in 1..Len(userRateLimit[k]) : userRateLimit[k][i] < now

(***************************************************************************)
(* utils/helpers.js: validateMobile                                        *)
(***************************************************************************)
\* mobile.replace(/\D/g, ''): the digits of the text
Cleaned(text) == SelectSeq(text, IsDigit)

\* /^(09|\+639)\d{9}$/.test(text)
PhMobileRegex(text) ==
    \E prefix \in {<<"0", "9">>, <<"+", "6", "3", "9">>} :
        /\ Len(text) = Len(prefix) + 9
        /\ SubSeq(text, 1, Len(prefix)) = prefix
        /\ \A i \in (Len(prefix) + 1)..Len(text) : IsDigit(text[i])

\* validateMobile(mobile)
validateMobile(text) ==
    \/ PhMobileRegex(Cleaned(text))
    \/ PhMobileRegex(<<"+", "6", "3">> \o SubSeq(Cleaned(text), 2, Len(Cleaned(text))))

\* the beginnings and the endings of the texts given to validateMobile

MobilePrefixes ==
    {<<"0", "9">>,
     <<"+", "6", "3", "9">>,
     <<"6", "3", "9">>,
     <<"+", "6", "3", " ", "9">>,
     <<"(", "+", "6", "3", ")", " ", "9">>,
     <<"0", " ", "9">>,
     <<"1", "9">>,
     <<"9", "9">>,
     <<"0", "8">>,
     <<"9">>,
     <<"+", "0", "9">>,
     <<"0", "6", "3", "9">>}

MobileBodies ==
    {<<"1", "7", "1", "2", "3", "4", "5", "6", "7">>,
     <<"1", "7", " ", "1", "2", "3", " ", "4", "5", "6", "7">>,
     <<"1", "7", "-", "1", "2", "3", "-", "4", "5", "6", "7">>,
     <<"1", "7", "1", "2", "3", "4", "5", "6">>,
     <<"1", "7", "1", "2", "3", "4", "5", "6", "7", "8">>,
     <<"1", "7", "1", "2", "3", "x", "4", "5", "6", "7">>}

MobileTexts == {prefix \o body : prefix \in MobilePrefixes, body \in MobileBodies}

InitMobile ==
    /\ TAX_RATE = Undefined
    /\ pc = "idle"
    /\ req = NoRequest
    /\ amounts = NoAmounts
    /\ sent = <<>>
    /\ res = 0
    /\ engine = NoCall
    /\ HookIdle
    /\ LimitIdle
    /\ mobile \in [text : MobileTexts, called : {FALSE}, valid : {FALSE}]
    /\ FlowIdle

\* one call validateMobile(mobile.text)
ValidateMobile ==
    /\ ~mobile.called
    /\ mobile' = [mobile EXCEPT !.called = TRUE, !.valid = validateMobile(mobile.text)]
    /\ UNCHANGED <<TAX_RATE, pc, req, amounts, sent, res, engine, flow, hookVars, limitVars>>

NextMobile == ValidateMobile

SpecMobile == InitMobile /\ [][NextMobile]_vars

\* the separators of a written number
Separators == {" ", "-", "(", ")"}

\* the text is 09XXXXXXXXX or +639XXXXXXXXX, with or without separators
Unseparated(text) == SelectSeq(text, LAMBDA c : c \notin Separators)
InDocumentedFormat(text) == PhMobileRegex(Unseparated(text))

\* C21: validateMobile accepts a text in either documented format,
\* 09XXXXXXXXX or +639XXXXXXXXX with or without separators, and rejects every
\* text that is in neither
MobileFormatsDecided ==
    mobile.called => (mobile.valid <=> InDocumentedFormat(mobile.text))

\* the part of C21 that the code meets: 09XXXXXXXXX is accepted
LocalFormatAccepted ==
    (mobile.called /\ InDocumentedFormat(mobile.text) /\ Head(Unseparated(mobile.text)) # "+")
        => mobile.valid

\* the +639XXXXXXXXX format is accepted
InternationalFormatAccepted ==
    (mobile.called /\ InDocumentedFormat(mobile.text) /\ Head(Unseparated(mobile.text)) = "+")
        => mobile.valid

\* a text in neither format is rejected
OtherFormatsRejected ==
    (mobile.called /\ ~InDocumentedFormat(mobile.text)) => ~mobile.valid

(***************************************************************************)
(* The payment methods of a checkout (specification SpecMethods)           *)
(***************************************************************************)
\* the paymentMethod of the body: absent, the identifiers of the frontend,
\* and one the frontend does not have
PaymentMethodChoices ==
    {"", "qrph", "all", "gcash", "grabpay", "maya", "shopeepay", "bpi", "unionbank",
     "card", "paypal"}

MethodRequests ==
    [product : {"START UP VA Course", "Dedicated Coaching"}, hasAmount : {FALSE},
     milli : {0}, paymentMethod : PaymentMethodChoices]

\* what the merchant account is eligible for at PayMongo, and whether
\* PayMongo answers a request for it
Merchants ==
    [types : {{"qrph", "gcash", "grab_pay", "paymaya", "shopee_pay", "dob"},
              {"gcash", "paymaya", "card"}, {"qrph"}, {}},
     reachable : BOOLEAN]

InitMethods ==
    /\ TAX_RATE = Undefined
    /\ pc = "idle"
    /\ req = NoRequest
    /\ amounts = NoAmounts
    /\ sent = <<>>
    /\ res = 0
    /\ engine = NoCall
    /\ HookIdle
    /\ LimitIdle
    /\ MobileIdle
    /\ flow \in [merchant : Merchants, paymentMethods : {<<>>}, notified : {<<>>},
                 body : {NoBody}]

NextMethods ==
    \/ \E r \in MethodRequests : createPaymentIntent(r)
    \/ \E ok \in BOOLEAN : PostPaymentIntent(ok)
    \/ \E ok \in BOOLEAN : PostCheckoutSession(ok)
    \/ SendResponse

SpecMethods == InitMethods /\ [][NextMethods]_vars

\* the list the user's choice stands for: every supported type for 'qrph',
\* 'all' or no choice, otherwise the one PayMongo type of the choice
ChosenMethods ==
    IF req.paymentMethod \in {"", "qrph", "all"}
    THEN <<"qrph", "gcash", "grab_pay", "paymaya", "shopee_pay", "dob">>
    ELSE <<NormalizedMethod(req.paymentMethod)>>

\* the i-th request to PayMongo is the creation of the checkout session
IsSession(i) == sent[i].path = "/checkout_sessions"
IsIntent(i) == sent[i].path = "/payment_intents"

\* C22: the checkout session of a payment offers the payment methods the
\* controller chose (all supported types for 'qrph', 'all' or no choice,
\* otherwise the single mapped type): its payment_method_types equal the
\* list the controller passed
SessionOffersChosenMethods ==
    \A i \in 1..Len(sent) :
        IsSession(i) =>
            /\ sent[i].methods = flow.paymentMethods
            /\ flow.merchant.types = NoMerchant.types => sent[i].methods = ChosenMethods

\* the part of C22 that the code meets: the payment intent allows the list
\* the controller passed, and an eligible merchant's list is the chosen one
IntentAllowsChosenMethods ==
    \A i \in 1..Len(sent) :
        IsIntent(i) =>
            /\ sent[i].methods = flow.paymentMethods
            /\ flow.merchant.types = NoMerchant.types => sent[i].methods = ChosenMethods

\* the types of a list
TypesOf(list) == {list[i] : i \in 1..Len(list)}

\* C23: the payment methods passed to PayMongo are filtered by the
\* merchant's capabilities: when PayMongo answers for them only eligible
\* types are kept, or the list is exactly ['qrph'] when none of the chosen
\* types is eligible; when the capabilities cannot be obtained the chosen
\* list is used; the list is never empty
MethodsFilteredByCapabilities ==
    pc \in {"intent", "session", "respond"} =>
        /\ flow.paymentMethods # <<>>
        /\ ~flow.merchant.reachable => flow.paymentMethods = ChosenMethods
        /\ flow.merchant.reachable =>
               IF TypesOf(ChosenMethods) \cap flow.merchant.types = {}
               THEN flow.paymentMethods = <<"qrph">>
               ELSE /\ TypesOf(flow.paymentMethods) \subseteq flow.merchant.types
                    /\ TypesOf(flow.paymentMethods) =
                           TypesOf(ChosenMethods) \cap flow.merchant.types

\* the part of C23 that the code meets: the list is the chosen one and is
\* never empty
MethodsUnfilteredAndNonEmpty ==
    pc \in {"intent", "session", "respond"} =>
        /\ flow.paymentMethods # <<>>
        /\ flow.paymentMethods = ChosenMethods

(***************************************************************************)
(* The representations and the order of a checkout (specification Spec)    *)
(***************************************************************************)
\* the integer c is 100 times the decimal that the text denotes
TextTimesHundredIs(text, c) ==
    LET d == ScanDecimal(text, 1, 0, 0, FALSE, FALSE)
    IN  /\ d.ok
        /\ d.digits <= 2
        /\ d.n * 10 ^ (2 - d.digits) = c

\* the integer c is 100 times the decimal with two places that the Number x
\* is nearest to
NumberTimesHundredIs(x, c) ==
    /\ TwoPlace(x)
    /\ x.s = 0
    /\ CentavosOf(x) = c

\* C26: all representations of one checkout's charge agree: the amounts of
\* the payment intent and of the line item of the checkout session are the
\* same integer, and it is 100 times the totalAmount of the PayMongo
\* metadata, the amount sent to LeadConnector and the amount returned to
\* the frontend
ChargeRepresentationsAgree ==
    \A i \in 1..Len(sent) :
        (IsIntent(i) \/ IsSession(i)) =>
            /\ IsInteger(sent[i].amount)
            /\ sent[i].amount = sent[1].amount
            /\ TextTimesHundredIs(sent[i].totalAmount, NumToInt(sent[i].amount))
            /\ \A n \in 1..Len(flow.notified) :
                   NumberTimesHundredIs(flow.notified[n].amount, NumToInt(sent[i].amount))
            /\ flow.body.success =>
                   NumberTimesHundredIs(flow.body.amount, NumToInt(sent[i].amount))

\* a checkout with the caller's amount 5500.505 was answered: 550051 in both
\* PayMongo requests, 5500.51 in the metadata, the notification and the body
RepresentationsOfRoundedAmount ==
    /\ pc = "done"
    /\ res = 200
    /\ req.hasAmount /\ req.milli = 5500505
    /\ Len(sent) = 2
    /\ NumToInt(sent[2].amount) = 550051
    /\ sent[2].totalAmount = <<"5", "5", "0", "0", ".", "5", "1">>
    /\ Len(flow.notified) = 1
    /\ flow.body.success

\* both PayMongo calls of the checkout succeeded
BothPayMongoCallsSucceeded ==
    /\ Len(sent) >= 2
    /\ IsIntent(1) /\ sent[1].ok
    /\ IsSession(2) /\ sent[2].ok

\* C27: the steps of a checkout are ordered: the checkout session is
\* requested only after the payment intent was created; the LeadConnector
\* 'payment_initiated' notification and the success response are produced
\* only after both PayMongo calls succeeded; when either PayMongo call
\* fails the request is answered 500, nothing is notified, no success
\* response is sent and no further request is made to PayMongo (a payment
\* intent created before a failed session call is left in place)
CheckoutStepsOrdered ==
    /\ \A i \in 1..Len(sent) : IsIntent(i) => i = 1
    /\ \A i \in 1..Len(sent) : IsSession(i) => (i = 2 /\ IsIntent(1) /\ sent[1].ok)
    /\ Len(flow.notified) <= 1
    /\ \A n \in 1..Len(flow.notified) : flow.notified[n].status = "payment_initiated"
    /\ (flow.notified # <<>> \/ flow.body.success \/ res = 200) =>
           BothPayMongoCallsSucceeded
    /\ res = 200 => (flow.body.success /\ Len(flow.notified) = 1)
    /\ \A i \in 1..Len(sent) :
           ((IsIntent(i) \/ IsSession(i)) /\ ~sent[i].ok) =>
               /\ pc = "done"
               /\ res = 500
               /\ flow.notified = <<>>
               /\ ~flow.body.success
               /\ i = Len(sent)

\* the payment intent was created, the checkout session failed: 500, no
\* notification, no body of success, nothing sent after it
SessionFailedAfterIntent ==
    /\ pc = "done"
    /\ res = 500
    /\ Len(sent) = 2
    /\ IsIntent(1) /\ sent[1].ok
    /\ IsSession(2) /\ ~sent[2].ok
    /\ flow.notified = <<>>
    /\ ~flow.body.success

(***************************************************************************)
(* The amount written to GHL (specification SpecWebhook)                   *)
(***************************************************************************)
\* the GHL calls that carry the amount
CarriesAmount(i) == hook.calls[i].call \in {"createInvoice", "recordInvoicePayment"}

\* the decimal text of c centavos in whole currency: 150000 is 1500.00
WholeCurrencyText(c) == IntToText(c \div 100) \o <<".">> \o FractionText(c, 2)

\* the event has no amount, one that is not a number, or zero
AmountAbsent(centavos) ==
    \/ centavos = Undefined
    \/ IsNaN(ToNumber(centavos))
    \/ IsZero(ToNumber(centavos))

NoInvoiceWithoutAmount ==
    /\ hook.pc = "done"
    /\ hook.event.amount = Undefined
    /\ Len(hook.calls) = 1
    /\ hook.calls[1].outcome = "id"

(***************************************************************************)
(* The quota of rateLimitByUser (specification SpecQuota): the requests    *)
(* that were let through are recorded next to the Map                      *)
(***************************************************************************)
QuotaRequests == [email : {"", "ana@site.ph"}, ip : {"10.0.0.1"}]

\* the record after a request: next() was called for userId at time `at`
\* by the middleware of rateLimitByUser(maxRequests, windowMs); k tells
\* apart the requests of one middleware for one identifier in one
\* millisecond; entries older than every window are dropped
Recorded(userId, maxRequests, windowMs, at, through) ==
    LET kept == {p \in passed.log : p.at > at - MaxWindowMs}
        same == {p \in kept : /\ p.userId = userId
                              /\ p.maxRequests = maxRequests
                              /\ p.windowMs = windowMs
                              /\ p.at = at}
    IN  [log |-> IF through
                 THEN kept \cup {[userId |-> userId, maxRequests |-> maxRequests,
                                  windowMs |-> windowMs, at |-> at,
                                  k |-> Cardinality(same) + 1]}
                 ELSE kept,
         windows |-> passed.windows \cup {windowMs}]

NextQuota ==
    \/ \E maxRequests \in 1..MaxMaxRequests, windowMs \in 1..MaxWindowMs,
          request \in QuotaRequests, tick \in {0, 1} :
           /\ rateLimitByUser(maxRequests, windowMs, request, tick)
           /\ passed' = Recorded(limited'.userId, maxRequests, windowMs, now',
                                 limited'.status = 0)
    \/ RequestWithoutBody

SpecQuota == InitLimit /\ [][NextQuota]_vars

\* the requests of userId that the middleware of rateLimitByUser(maxRequests,
\* windowMs) let through in the window of length windowMs that ends now
ThroughInWindow(userId, maxRequests, windowMs) ==
    {p \in passed.log : /\ p.userId = userId
                        /\ p.maxRequests = maxRequests
                        /\ p.windowMs = windowMs
                        /\ p.at > now - windowMs}

\* C25: for each identifier, rateLimitByUser(maxRequests, windowMs) lets at
\* most maxRequests requests through in any time window of length windowMs
\* over any sequence of request times (it is enough to look at the windows
\* that end at the time of a request)
AtMostMaxRequestsPerWindow ==
    \A userId \in DOMAIN userRateLimit :
        \A maxRequests \in 1..MaxMaxRequests, windowMs \in 1..MaxWindowMs :
            Cardinality(ThroughInWindow(userId, maxRequests, windowMs)) <= maxRequests

\* the part of C25 that the code meets: the quota holds while every request
\* went through middlewares of one windowMs
QuotaHeldWithOneWindow ==
    Cardinality(passed.windows) <= 1 =>
        \A userId \in DOMAIN userRateLimit :
            \A maxRequests \in 1..MaxMaxRequests, windowMs \in 1..MaxWindowMs :
                Cardinality(ThroughInWindow(userId, maxRequests, windowMs)) <= maxRequests

\* a request answered 429 leaves the timestamps of the identifier as they
\* were filtered: none is added
RejectedRecordsNothing ==
    [][limited'.status = 429 /\ limited'.userId \in DOMAIN userRateLimit =>
           /\ Len(userRateLimit'[limited'.userId]) <= Len(userRateLimit[limited'.userId])
           /\ passed'.log \subseteq passed.log]_vars

====
